---- MODULE Spec2Model ----
(***************************************************************************)
(* Session and account handlers of src/api/app/account.go: the account     *)
(* routes (accountCtx, get, update, delete, updateToken, deleteToken) and  *)
(* the authentication flow (login, token, refresh, logout).                *)
(*                                                                         *)
(* Every HTTP request runs on a goroutine of its own, so a handler is a    *)
(* process: one step per call that reads or writes state shared between    *)
(* requests (the account store, the login-token issuer), with the local    *)
(* computation that follows the call folded into the step.  The store, the *)
(* issuer, the signer and the mailer are collaborators whose code is not   *)
(* in the file; they are modelled from their contract, and every call that *)
(* returns an error may fail.                                              *)
(***************************************************************************)
EXTENDS Integers, Sequences, FiniteSets, TLC

\* ------------------------------------------------------------------ bounds
\* the clock's last tick, and the number of requests the clients send
MaxTime == 1
MaxRequests == 3

\* jwtRefreshExpiry and the login token's TTL, in clock ticks
RefreshTTL == 1
LoginTTL == 0

Procs == {"p1", "p2"}
Accounts == {1, 2}

\* ----------------------------------------------------------------- strings
\* A string is a sequence of characters.  SP is white space, AT is "@" and
\* DASH a character that is neither a letter nor a digit.
SP == " "
AT == "@"
DASH == "-"
Lower == {"a", "b", "c"}
Upper == {"A", "B", "C"}
Digits == <<"1", "2", "3", "4", "5">>

IsAlnum(c) == c \in Lower \cup Upper \cup {Digits[i] : i \in 1..Len(Digits)}

RECURSIVE TrimLeft(_)
TrimLeft(s) == IF s # <<>> /\ Head(s) = SP THEN TrimLeft(Tail(s)) ELSE s

RECURSIVE TrimRight(_)
TrimRight(s) ==
    IF s # <<>> /\ s[Len(s)] = SP THEN TrimRight(SubSeq(s, 1, Len(s) - 1)) ELSE s

\* strings.TrimSpace
TrimSpace(s) == TrimRight(TrimLeft(s))

LowerChar(c) ==
    CASE c = "A" -> "a"
      [] c = "B" -> "b"
      [] c = "C" -> "c"
      [] OTHER -> c

\* strings.ToLower
ToLower(s) == [i \in 1..Len(s) |-> LowerChar(s[i])]

\* validation.Required
Required(s) == s # <<>>

\* is.Email: a local part of letters and digits, then "@" (the domain is left out)
IsEmail(s) ==
    /\ Len(s) >= 2
    /\ s[Len(s)] = AT
    /\ \A i \in 1..(Len(s) - 1) : IsAlnum(s[i])

\* is.Alphanumeric
IsAlphanumeric(s) == \A i \in 1..Len(s) : IsAlnum(s[i])

\* loginRequest.Bind: the email as normalised, and whether validation passed
LoginBindEmail(raw) == ToLower(TrimSpace(raw))

LoginBindOk(raw) == Required(LoginBindEmail(raw)) /\ IsEmail(LoginBindEmail(raw))

\* auth tokenRequest.Bind
TokenBindToken(raw) == TrimSpace(raw)

TokenBindOk(raw) == Required(TokenBindToken(raw)) /\ IsAlphanumeric(TokenBindToken(raw))

\* app tokenRequest.Bind
IdentifierBind(raw) == TrimSpace(raw)

\* The email address the account with this id is created with.
EmailOf(a) == <<(<<"a", "b">>)[a], AT>>

\* The string of the n-th login token the issuer creates.
LoginString(n) == <<Digits[n]>>

\* ------------------------------------------------------------------- state
VARIABLES
    now,          \* the wall clock, time.Now()
    accounts,     \* account store: id -> row
    tokens,       \* account store: the refresh Token records
    nextTokenID,  \* the serial primary key of the next Token record
    nextUUID,     \* uuid.NewV4(): the next fresh refresh-token string
    loginTokens,  \* login-token issuer: the tokens it holds
    nextLogin,    \* the next fresh login-token string
    mailq,        \* login emails whose goroutine has started and not finished
    mailLog,      \* login emails whose send has returned, with its outcome
    req,          \* per request goroutine: the handler, its position and locals
    started,      \* the number of requests received so far
    rotated,      \* refresh-token strings a successful refresh has presented
    issued,       \* the presented and the returned string of each successful refresh
    redeemed,     \* the login token and the returned string of each successful redemption
    refused,      \* refresh-token strings a refresh has answered login-disabled
    loggedOut,    \* refresh-token strings a successful logout has presented
    deleted       \* accounts a successful account delete has removed

vars == <<now, accounts, tokens, nextTokenID, nextUUID, loginTokens, nextLogin,
          mailq, mailLog, req, started, rotated, issued,
          redeemed, refused, loggedOut, deleted>>

store == <<accounts, tokens, nextTokenID>>
issuer == <<loginTokens, nextLogin>>
mailer == <<mailq, mailLog>>
history == <<rotated, issued, redeemed, refused, loggedOut, deleted>>

\* A response is observed before the step that follows it: a request that
\* has been answered shares nothing with the requests still running.
Quiet == \A p \in Procs : req[p].pc # "done"

\* The server takes another request.
Receive == started < MaxRequests /\ started' = started + 1

NoBody == [none |-> TRUE]
NoAcc == [id |-> 0]
NoTok == [id |-> 0]

\* A deleted account's row.
Gone == [exists |-> FALSE, email |-> <<>>, name |-> "", active |-> FALSE,
         roles |-> {}, lastLogin |-> 0]

\* ------------------------------------------------------------- responses
Respond(body) == [kind |-> "Respond", err |-> "", body |-> body]

\* package auth: ErrUnauthorized(err)
AuthErrUnauthorized(err) == [kind |-> "ErrUnauthorized", err |-> err, body |-> NoBody]

\* package app: ErrUnauthorized
AppErrUnauthorized == [kind |-> "ErrUnauthorized", err |-> "", body |-> NoBody]

ErrInternalServerError == [kind |-> "ErrInternalServerError", err |-> "", body |-> NoBody]

ErrBadRequest == [kind |-> "ErrBadRequest", err |-> "", body |-> NoBody]

ErrInvalidRequest(err) == [kind |-> "ErrInvalidRequest", err |-> err, body |-> NoBody]

ErrValidation(err) == [kind |-> "ErrValidation", err |-> err, body |-> NoBody]

ErrRender(err) == [kind |-> "ErrRender", err |-> err, body |-> NoBody]

ErrInvalidLogin == "invalid email address"
ErrUnknownLogin == "email not registered"
ErrLoginDisabled == "login for account disabled"
ErrLoginToken == "invalid or expired login token"
errTokenExpired == "token expired"

\* ------------------------------------------------------------ collaborators
\* Account.CanLogin
CanLogin(acc) == acc.active

\* The account a handler holds, with the fields its code reads afterwards:
\* login the ones the email is made of,
AccountForLogin(a) == [id |-> a, email |-> accounts[a].email, name |-> accounts[a].name]

\* token and refresh the id (the claims; last-login is overwritten),
AccountForTokens(a) == [id |-> a]

\* update the whole row, delete the id, updateToken and deleteToken the ids
\* of the Token relation, and get the row with them.
AccountFor(op, a) ==
    LET row == [id |-> a, email |-> accounts[a].email, name |-> accounts[a].name,
                active |-> accounts[a].active, roles |-> accounts[a].roles,
                lastLogin |-> accounts[a].lastLogin]
        ids == {t.id : t \in {u \in tokens : u.accountID = a}}
    IN  CASE op = "get" -> [account |-> row, token |-> ids]
          [] op = "update" -> row
          [] op = "delete" -> [id |-> a]
          [] OTHER -> [id |-> a, token |-> ids]

\* Store.GetByEmail, as the set of matching account ids
GetByEmail(email) == {a \in Accounts : accounts[a].exists /\ accounts[a].email = email}

\* LoginTokenAuth.GetAccountID, as the set of unexpired tokens with this string
GetAccountID(str) == {lt \in loginTokens : lt.token = str /\ ~(now > lt.expiry)}

\* Store.GetByRefreshToken, as the set of records with this token string
GetByRefreshToken(rt) ==
    {t \in tokens : t.token = rt /\ accounts[t.accountID].exists}

\* Store.DeleteRefreshToken / AccountStore.DeleteToken: delete by primary key
WithoutToken(id) == {t \in tokens : t.id # id}

\* Store.UpdateAccount: writes the last-login column of the account's row
WithLastLogin(id, lastLogin) ==
    IF accounts[id].exists
    THEN [accounts EXCEPT ![id].lastLogin = lastLogin]
    ELSE accounts

\* TokenAuth.GenTokenPair: the access token carries the account claims, the
\* refresh token the claims of the Token record
GenTokenPair(acc, tok) == [access |-> acc.id, refresh |-> tok.token]

\* user_agent.New(r.UserAgent()): the mobile flag and "<browser> on <OS>"
UserAgents == {[mobile |-> TRUE, identifier |-> <<"a">>]}

\* --------------------------------------------------------------- requests
\* fault names the store or signer call that returned an error to the request.
Idle == [op |-> "", pc |-> "idle", id |-> 0, rt |-> 0, tid |-> 0, str |-> <<>>,
         acc |-> NoAcc, tok |-> NoTok, resp |-> NoBody, fault |-> ""]

Free(p) == Quiet /\ req[p].pc = "idle" /\ Receive

\* The request has been answered: only its inputs and its response are kept.
Done(r, resp) == [r EXCEPT !.pc = "done", !.acc = NoAcc, !.tok = NoTok, !.resp = resp]

\* The same after the call named has returned an error.
Failed(r, resp, call) == [Done(r, resp) EXCEPT !.fault = call]

\* The store as the server finds it: account 1 is enabled and account 2
\* disabled, and each holds one Token record of an earlier session, which
\* expires with the first tick of the clock.
InitialTokens ==
    {[id |-> a, token |-> a, expiry |-> 0, updatedAt |-> 0, accountID |-> a,
      mobile |-> TRUE, identifier |-> <<"a">>] : a \in Accounts}

Init ==
    /\ now = 0
    /\ accounts = [a \in Accounts |->
                      [exists |-> TRUE, email |-> EmailOf(a), name |-> "n0",
                       active |-> (a = 1), roles |-> {"user"}, lastLogin |-> 0]]
    /\ tokens = InitialTokens
    /\ nextTokenID = Cardinality(InitialTokens) + 1
    /\ nextUUID = Cardinality(InitialTokens) + 1
    /\ loginTokens = {}
    /\ nextLogin = 1
    /\ mailq = {}
    /\ mailLog = {}
    /\ req = [p \in Procs |-> Idle]
    /\ started = 0
    /\ rotated = {}
    /\ issued = {}
    /\ redeemed = {}
    /\ refused = {}
    /\ loggedOut = {}
    /\ deleted = {}

\* ------------------------------------------------------------ environment
Tick ==
    /\ Quiet
    /\ now < MaxTime
    /\ now' = now + 1
    /\ UNCHANGED <<started, store, nextUUID, issuer, mailer, req, history>>

\* A request to account management, outside these handlers, enables or
\* disables an account.
SetActive ==
    \E a \in Accounts, b \in BOOLEAN :
        /\ Quiet
        /\ Receive
        /\ accounts[a].exists
        /\ accounts[a].active # b
        /\ accounts' = [accounts EXCEPT ![a].active = b]
        /\ UNCHANGED <<now, tokens, nextTokenID, nextUUID, issuer, mailer, req, history>>

\* ------------------------------------------------------------------ login
LoginInputs == {EmailOf(1), <<SP, "B", AT>>, <<"c", AT>>, <<"a">>, <<SP>>}

\* login() answering a disabled account as it answers an unknown email.
loginResponseGeneric(raw, ok, accts) ==
    LET email == LoginBindEmail(raw)
        found == {a \in Accounts : accts[a].exists /\ accts[a].email = email}
    IN  IF ~LoginBindOk(raw) THEN AuthErrUnauthorized(ErrInvalidLogin)
        ELSE IF ~ok \/ found = {} THEN AuthErrUnauthorized(ErrUnknownLogin)
        ELSE IF ~CanLogin(accts[CHOOSE a \in found : TRUE])
        THEN AuthErrUnauthorized(ErrUnknownLogin)
        ELSE Respond(NoBody)

\* login() up to rs.Login.CreateToken: the error it answers with, or the
\* success it goes on to.  ok: rs.store.GetByEmail returned no error.
loginResponse(raw, ok, accts) ==
    LET email == LoginBindEmail(raw)
        found == {a \in Accounts : accts[a].exists /\ accts[a].email = email}
    IN  IF ~LoginBindOk(raw) THEN AuthErrUnauthorized(ErrInvalidLogin)
        ELSE IF ~ok \/ found = {} THEN AuthErrUnauthorized(ErrUnknownLogin)
        ELSE IF ~CanLogin(accts[CHOOSE a \in found : TRUE])
        THEN AuthErrUnauthorized(ErrLoginDisabled)
        ELSE Respond(NoBody)

login(p) ==
    \E raw \in LoginInputs, ok \in BOOLEAN :
        LET email == LoginBindEmail(raw)
            r == [Idle EXCEPT !.op = "login", !.str = email]
            resp == loginResponse(raw, ok, accounts)
        IN  /\ Free(p)
            /\ IF resp.kind # "Respond"
               THEN req' = [req EXCEPT ![p] =
                               IF LoginBindOk(raw) /\ ~ok
                               THEN Failed(r, resp, "GetByEmail") ELSE Done(r, resp)]
               ELSE req' = [req EXCEPT ![p] =
                               [r EXCEPT !.pc = "login_create",
                                         !.acc = AccountForLogin(
                                                    CHOOSE a \in GetByEmail(email) : TRUE)]]
            /\ UNCHANGED <<now, store, nextUUID, issuer, mailer, history>>

\* LoginTokenAuth.CreateToken
CreateToken(id) == [token |-> LoginString(nextLogin), accountID |-> id,
                    expiry |-> now + LoginTTL]

\* login() without its go statement: no mail is handed to the mailer.
DispatchNothing(acc, lt) == mailq

\* The go statement: the goroutine that sends the login email has started.
Dispatch(acc, lt) == mailq \cup {[to |-> acc.email, token |-> lt.token]}

\* rs.Login.CreateToken and the go statement
loginCreate(p) ==
    LET r == req[p]
        lt == CreateToken(r.acc.id)
    IN  /\ Quiet /\ r.pc = "login_create"
        /\ loginTokens' = loginTokens \cup {lt}
        /\ nextLogin' = nextLogin + 1
        /\ mailq' = Dispatch(r.acc, lt)
        /\ req' = [req EXCEPT ![p] = [r EXCEPT !.pc = "login_respond", !.acc = NoAcc]]
        /\ UNCHANGED <<started, now, store, nextUUID, mailLog, history>>

\* render.Respond(w, r, http.NoBody), while the goroutine runs or has run
loginRespond(p) ==
    LET r == req[p]
    IN  /\ Quiet /\ r.pc = "login_respond"
        /\ req' = [req EXCEPT ![p] = Done(r, Respond(NoBody))]
        /\ UNCHANGED <<started, now, store, nextUUID, issuer, mailer, history>>

\* The goroutine of login taking the issued token back when the send fails.
mailSendRollingBack ==
    \E m \in mailq, ok \in BOOLEAN :
        /\ Quiet
        /\ mailq' = mailq \ {m}
        /\ mailLog' = mailLog \cup {[to |-> m.to, token |-> m.token, ok |-> ok]}
        /\ loginTokens' = IF ok THEN loginTokens
                          ELSE {lt \in loginTokens : lt.token # m.token}
        /\ UNCHANGED <<started, now, store, nextUUID, nextLogin, req, history>>

\* The goroutine of login: rs.mailer.LoginToken returns, with or without error.
mailSend ==
    \E m \in mailq, ok \in BOOLEAN :
        /\ Quiet
        /\ mailq' = mailq \ {m}
        /\ mailLog' = mailLog \cup {[to |-> m.to, token |-> m.token, ok |-> ok]}
        /\ UNCHANGED <<started, now, store, nextUUID, issuer, req, history>>

\* ------------------------------------------------------------------ token
TokenInputs == {LoginString(1), <<SP, Digits[2], SP>>, <<Digits[5]>>, <<DASH>>, <<>>}

\* The handlers without their CanLogin check.
DisabledNever(a) == FALSE

\* if !acc.CanLogin(): the account the store holds may not log in
Disabled(a) == ~CanLogin(accounts[a])

\* token() answering a failed GetAccountID as it answers a failed GetByID.
tokenUnresolvedAsUnknown == AuthErrUnauthorized(ErrUnknownLogin)

\* The answer token() gives to a login token it cannot resolve.
tokenUnresolved == AuthErrUnauthorized(ErrLoginToken)

\* token() taking the login token it has resolved out of the issuer.
tokenConsuming(p) ==
    \E raw \in TokenInputs :
        LET str == TokenBindToken(raw)
            r == [Idle EXCEPT !.op = "token", !.str = str]
            found == GetAccountID(str)
        IN  /\ Free(p)
            /\ IF ~TokenBindOk(raw) \/ found = {}
               THEN /\ req' = [req EXCEPT ![p] = Done(r, tokenUnresolved)]
                    /\ UNCHANGED loginTokens
               ELSE /\ req' = [req EXCEPT ![p] =
                                  [r EXCEPT !.pc = "token_getbyid",
                                            !.id = (CHOOSE lt \in found : TRUE).accountID]]
                    /\ loginTokens' = loginTokens \ found
            /\ UNCHANGED <<now, store, nextUUID, nextLogin, mailer, history>>

\* Bind and rs.Login.GetAccountID
token(p) ==
    \E raw \in TokenInputs :
        LET str == TokenBindToken(raw)
            r == [Idle EXCEPT !.op = "token", !.str = str]
            found == GetAccountID(str)
        IN  /\ Free(p)
            /\ IF ~TokenBindOk(raw) \/ found = {}
               THEN req' = [req EXCEPT ![p] = Done(r, tokenUnresolved)]
               ELSE req' = [req EXCEPT ![p] =
                               [r EXCEPT !.pc = "token_getbyid",
                                         !.id = (CHOOSE lt \in found : TRUE).accountID]]
            /\ UNCHANGED <<now, store, nextUUID, issuer, mailer, history>>

\* token() going on with the id the login token names when rs.store.GetByID
\* finds no account.
tokenGetByIDTrusting(p) ==
    \E ok \in BOOLEAN :
        LET r == req[p]
        IN  /\ Quiet /\ r.pc = "token_getbyid"
            /\ IF ~ok
               THEN req' = [req EXCEPT ![p] =
                               Failed(r, AuthErrUnauthorized(ErrUnknownLogin), "GetByID")]
               ELSE IF accounts[r.id].exists /\ Disabled(r.id)
               THEN req' = [req EXCEPT ![p] = Done(r, AuthErrUnauthorized(ErrLoginDisabled))]
               ELSE req' = [req EXCEPT ![p] =
                               [r EXCEPT !.pc = "token_save",
                                         !.acc = AccountForTokens(r.id)]]
            /\ UNCHANGED <<started, now, store, nextUUID, issuer, mailer, history>>

\* rs.store.GetByID and CanLogin
tokenGetByID(p) ==
    \E ok \in BOOLEAN :
        LET r == req[p]
        IN  /\ Quiet /\ r.pc = "token_getbyid"
            /\ IF ~ok \/ ~accounts[r.id].exists
               THEN req' = [req EXCEPT ![p] =
                               IF ok THEN Done(r, AuthErrUnauthorized(ErrUnknownLogin))
                               ELSE Failed(r, AuthErrUnauthorized(ErrUnknownLogin), "GetByID")]
               ELSE IF Disabled(r.id)
               THEN req' = [req EXCEPT ![p] = Done(r, AuthErrUnauthorized(ErrLoginDisabled))]
               ELSE req' = [req EXCEPT ![p] =
                               [r EXCEPT !.pc = "token_save",
                                         !.acc = AccountForTokens(r.id)]]
            /\ UNCHANGED <<started, now, store, nextUUID, issuer, mailer, history>>

\* The Token record token() builds from the request's user agent.
NewToken(acc, ua) ==
    [id |-> 0, token |-> nextUUID, expiry |-> now + RefreshTTL, updatedAt |-> now,
     accountID |-> acc.id, mobile |-> ua.mobile, identifier |-> ua.identifier]

\* Store.SaveRefreshToken of a record without id: an insert, which the
\* foreign key to the account refuses once the account is gone
InsertToken(tok) == tokens \cup {[tok EXCEPT !.id = nextTokenID]}

\* token() signing the pair before it saves the record.
tokenSaveSignedFirst(p) ==
    \E ok \in BOOLEAN, signed \in BOOLEAN, ua \in UserAgents :
        LET r == req[p]
            tok == NewToken(r.acc, ua)
        IN  /\ Quiet /\ r.pc = "token_save"
            /\ nextUUID' = nextUUID + 1
            /\ IF ~signed
               THEN /\ req' = [req EXCEPT ![p] =
                                  Failed(r, ErrInternalServerError, "GenTokenPair")]
                    /\ UNCHANGED <<tokens, nextTokenID>>
               ELSE IF ~ok \/ ~accounts[r.acc.id].exists
               THEN /\ req' = [req EXCEPT ![p] =
                                  Failed(r, ErrInternalServerError, "SaveRefreshToken")]
                    /\ UNCHANGED <<tokens, nextTokenID>>
               ELSE /\ tokens' = InsertToken(tok)
                    /\ nextTokenID' = nextTokenID + 1
                    /\ req' = [req EXCEPT ![p] =
                                  [r EXCEPT !.pc = "token_update",
                                            !.tok = [id |-> nextTokenID,
                                                     token |-> tok.token]]]
            /\ UNCHANGED <<started, now, accounts, issuer, mailer, history>>

\* The new Token record, rs.store.SaveRefreshToken and rs.Token.GenTokenPair
tokenSave(p) ==
    \E ok \in BOOLEAN, signed \in BOOLEAN, ua \in UserAgents :
        LET r == req[p]
            tok == NewToken(r.acc, ua)
        IN  /\ Quiet /\ r.pc = "token_save"
            /\ nextUUID' = nextUUID + 1
            /\ IF ~ok \/ ~accounts[r.acc.id].exists
               THEN /\ req' = [req EXCEPT ![p] =
                                  Failed(r, ErrInternalServerError, "SaveRefreshToken")]
                    /\ UNCHANGED <<tokens, nextTokenID>>
               ELSE /\ tokens' = InsertToken(tok)
                    /\ nextTokenID' = nextTokenID + 1
                    /\ IF ~signed
                       THEN req' = [req EXCEPT ![p] =
                                       Failed(r, ErrInternalServerError, "GenTokenPair")]
                       ELSE req' = [req EXCEPT ![p] =
                                       [r EXCEPT !.pc = "token_update",
                                                 !.tok = [id |-> nextTokenID,
                                                          token |-> tok.token]]]
            /\ UNCHANGED <<started, now, accounts, issuer, mailer, history>>

\* acc.LastLogin = time.Now(), rs.store.UpdateAccount and the response
tokenUpdate(p) ==
    \E ok \in BOOLEAN :
        LET r == req[p]
        IN  /\ Quiet /\ r.pc = "token_update"
            /\ IF ~ok
               THEN /\ req' = [req EXCEPT ![p] =
                                  Failed(r, ErrInternalServerError, "UpdateAccount")]
                    /\ UNCHANGED <<accounts, redeemed>>
               ELSE /\ accounts' = WithLastLogin(r.acc.id, now)
                    /\ redeemed' = redeemed \cup {[str |-> r.str, refresh |-> r.tok.token]}
                    /\ req' = [req EXCEPT ![p] =
                                  Done(r, Respond(GenTokenPair(r.acc, r.tok)))]
            /\ UNCHANGED <<started, now, tokens, nextTokenID, nextUUID, issuer, mailer,
                           rotated, issued, refused, loggedOut, deleted>>

\* ---------------------------------------------------------------- refresh
\* RefreshTokenFromCtx: a string some Token record was given, or one none was
RefreshInputs == 0..(nextUUID - 1)

\* refresh() rotating into a Token built anew, as token() builds it, without
\* the user agent: the identifier is lost.
RotateIntoNewToken(tok) ==
    [tok EXCEPT !.token = nextUUID, !.expiry = now + RefreshTTL, !.updatedAt = now,
                !.identifier = <<>>]

\* refresh() without line 354: the record keeps the presented string.
RotateSameString(tok) == [tok EXCEPT !.expiry = now + RefreshTTL, !.updatedAt = now]

\* token.Token, token.Expiry and token.UpdatedAt as refresh() sets them
Rotate(tok) == [tok EXCEPT !.token = nextUUID, !.expiry = now + RefreshTTL,
                           !.updatedAt = now]

\* refresh() treating the token of an account that may not log in as an
\* expired one.
ExpiredOrDisabled(tok) == now > tok.expiry \/ ~CanLogin(accounts[tok.accountID])

\* time.Now().After(token.Expiry)
Expired(tok) == now > tok.expiry

\* rs.store.GetByRefreshToken, the expiry and CanLogin checks, the rotation of
\* the handler's copy of the record and rs.Token.GenTokenPair
refresh(p) ==
    \E rt \in RefreshInputs, ok \in BOOLEAN, signed \in BOOLEAN :
        LET r == [Idle EXCEPT !.op = "refresh", !.rt = rt]
            found == GetByRefreshToken(rt)
        IN  /\ Free(p)
            /\ IF ~ok \/ found = {}
               THEN /\ req' = [req EXCEPT ![p] =
                                  IF ok THEN Done(r, AuthErrUnauthorized(errTokenExpired))
                                  ELSE Failed(r, AuthErrUnauthorized(errTokenExpired),
                                              "GetByRefreshToken")]
                    /\ UNCHANGED nextUUID
               ELSE LET tok == CHOOSE t \in found : TRUE
                        acc == AccountForTokens(tok.accountID)
                    IN  IF Expired(tok)
                        THEN /\ req' = [req EXCEPT ![p] =
                                           [r EXCEPT !.pc = "refresh_expired", !.tok = tok]]
                             /\ UNCHANGED nextUUID
                        ELSE IF Disabled(tok.accountID)
                        THEN /\ req' = [req EXCEPT ![p] =
                                           Done(r, AuthErrUnauthorized(ErrLoginDisabled))]
                             /\ UNCHANGED nextUUID
                        ELSE /\ nextUUID' = nextUUID + 1
                             /\ IF ~signed
                                THEN req' = [req EXCEPT ![p] =
                                                Failed(r, ErrInternalServerError,
                                                       "GenTokenPair")]
                                ELSE req' = [req EXCEPT ![p] =
                                                [r EXCEPT !.pc = "refresh_save", !.acc = acc,
                                                          !.tok = Rotate(tok)]]
            /\ refused' = IF req'[p].resp = AuthErrUnauthorized(ErrLoginDisabled)
                          THEN refused \cup {rt} ELSE refused
            /\ UNCHANGED <<now, store, issuer, mailer, rotated, issued, redeemed,
                           loggedOut, deleted>>

\* rs.store.DeleteRefreshToken of an expired record (its error is dropped)
refreshExpired(p) ==
    \E ok \in BOOLEAN :
        LET r == req[p]
        IN  /\ Quiet /\ r.pc = "refresh_expired"
            /\ tokens' = IF ok THEN WithoutToken(r.tok.id) ELSE tokens
            /\ req' = [req EXCEPT ![p] =
                          IF ok THEN Done(r, AuthErrUnauthorized(errTokenExpired))
                          ELSE Failed(r, AuthErrUnauthorized(errTokenExpired),
                                      "DeleteRefreshToken")]
            /\ UNCHANGED <<started, now, accounts, nextTokenID, nextUUID, issuer, mailer, history>>

\* Store.SaveRefreshToken of a record with an id: an update of that row
UpdateToken(tok) == {IF t.id = tok.id THEN tok ELSE t : t \in tokens}

\* refresh() saving the rotation as a record of its own: a new row.
refreshSaveAsNewRecord(p) ==
    \E ok \in BOOLEAN :
        LET r == req[p]
        IN  /\ Quiet /\ r.pc = "refresh_save"
            /\ IF ~ok
               THEN /\ req' = [req EXCEPT ![p] =
                                  Failed(r, ErrInternalServerError, "SaveRefreshToken")]
                    /\ UNCHANGED <<tokens, nextTokenID>>
               ELSE /\ tokens' = tokens \cup {[r.tok EXCEPT !.id = nextTokenID]}
                    /\ nextTokenID' = nextTokenID + 1
                    /\ req' = [req EXCEPT ![p] =
                                  [r EXCEPT !.pc = "refresh_update",
                                            !.tok = [id |-> nextTokenID,
                                                     token |-> r.tok.token]]]
            /\ UNCHANGED <<started, now, accounts, nextUUID, issuer, mailer, history>>

\* rs.store.SaveRefreshToken
refreshSave(p) ==
    \E ok \in BOOLEAN :
        LET r == req[p]
        IN  /\ Quiet /\ r.pc = "refresh_save"
            /\ IF ~ok
               THEN /\ req' = [req EXCEPT ![p] =
                                  Failed(r, ErrInternalServerError, "SaveRefreshToken")]
                    /\ UNCHANGED tokens
               ELSE /\ tokens' = UpdateToken(r.tok)
                    /\ req' = [req EXCEPT ![p] =
                                  [r EXCEPT !.pc = "refresh_update",
                                            !.tok = [id |-> r.tok.id, token |-> r.tok.token]]]
            /\ UNCHANGED <<started, now, accounts, nextTokenID, nextUUID, issuer, mailer, history>>

\* refresh() putting the presented string back when rs.store.UpdateAccount
\* fails.
refreshUpdateRestoring(p) ==
    \E ok \in BOOLEAN :
        LET r == req[p]
        IN  /\ Quiet /\ r.pc = "refresh_update"
            /\ IF ~ok
               THEN /\ req' = [req EXCEPT ![p] =
                                  Failed(r, ErrInternalServerError, "UpdateAccount")]
                    /\ tokens' = {IF t.id = r.tok.id THEN [t EXCEPT !.token = r.rt] ELSE t
                                     : t \in tokens}
                    /\ UNCHANGED <<accounts, rotated, issued>>
               ELSE /\ accounts' = WithLastLogin(r.acc.id, now)
                    /\ rotated' = rotated \cup {r.rt}
                    /\ issued' = issued \cup {[rt |-> r.rt, refresh |-> r.tok.token]}
                    /\ req' = [req EXCEPT ![p] =
                                  Done(r, Respond(GenTokenPair(r.acc, r.tok)))]
                    /\ UNCHANGED tokens
            /\ UNCHANGED <<started, now, nextTokenID, nextUUID, issuer, mailer,
                           redeemed, refused, loggedOut, deleted>>

\* acc.LastLogin = time.Now(), rs.store.UpdateAccount and the response
refreshUpdate(p) ==
    \E ok \in BOOLEAN :
        LET r == req[p]
        IN  /\ Quiet /\ r.pc = "refresh_update"
            /\ IF ~ok
               THEN /\ req' = [req EXCEPT ![p] =
                                  Failed(r, ErrInternalServerError, "UpdateAccount")]
                    /\ UNCHANGED <<accounts, rotated, issued>>
               ELSE /\ accounts' = WithLastLogin(r.acc.id, now)
                    /\ rotated' = rotated \cup {r.rt}
                    /\ issued' = issued \cup {[rt |-> r.rt, refresh |-> r.tok.token]}
                    /\ req' = [req EXCEPT ![p] =
                                  Done(r, Respond(GenTokenPair(r.acc, r.tok)))]
            /\ UNCHANGED <<started, now, tokens, nextTokenID, nextUUID, issuer, mailer,
                           redeemed, refused, loggedOut, deleted>>

\* ----------------------------------------------------------------- logout
\* rs.store.GetByRefreshToken
logout(p) ==
    \E rt \in RefreshInputs, ok \in BOOLEAN :
        LET r == [Idle EXCEPT !.op = "logout", !.rt = rt]
            found == GetByRefreshToken(rt)
        IN  /\ Free(p)
            /\ IF ~ok \/ found = {}
               THEN req' = [req EXCEPT ![p] =
                               IF ok THEN Done(r, AuthErrUnauthorized(errTokenExpired))
                               ELSE Failed(r, AuthErrUnauthorized(errTokenExpired),
                                           "GetByRefreshToken")]
               ELSE req' = [req EXCEPT ![p] =
                               [r EXCEPT !.pc = "logout_delete",
                                         !.tok = [id |-> (CHOOSE t \in found : TRUE).id]]]
            /\ UNCHANGED <<now, store, nextUUID, issuer, mailer, history>>

\* rs.store.DeleteRefreshToken (its error is dropped) and the response
logoutDelete(p) ==
    \E ok \in BOOLEAN :
        LET r == req[p]
        IN  /\ Quiet /\ r.pc = "logout_delete"
            /\ tokens' = IF ok THEN WithoutToken(r.tok.id) ELSE tokens
            /\ loggedOut' = loggedOut \cup {r.rt}
            /\ req' = [req EXCEPT ![p] =
                          IF ok THEN Done(r, Respond(NoBody))
                          ELSE Failed(r, Respond(NoBody), "DeleteRefreshToken")]
            /\ UNCHANGED <<started, now, accounts, nextTokenID, nextUUID, issuer, mailer,
                           rotated, issued, redeemed, refused, deleted>>

\* --------------------------------------------------------- account routes
AccountOps == {"get", "update", "delete", "updateToken", "deleteToken"}

\* accountCtx trusting the claims when the store returns no error.
MissingOnlyOnError(id, ok) == ~ok

\* if err != nil after rs.Store.Get: the account is not to be had
Missing(id, ok) == ~ok \/ ~accounts[id].exists

\* accountCtx: rs.Store.Get(claims.ID), for the account the access token
\* names; get, which calls nothing else, answers in the same step
accountCtx(p) ==
    \E op \in AccountOps, id \in Accounts, ok \in BOOLEAN :
        LET r == [Idle EXCEPT !.op = op, !.id = id]
            acc == AccountFor(op, id)
        IN  /\ Free(p)
            /\ IF Missing(id, ok)
               THEN req' = [req EXCEPT ![p] =
                               IF ok THEN Done(r, AppErrUnauthorized)
                               ELSE Failed(r, AppErrUnauthorized, "Get")]
               ELSE IF op = "get"
               THEN req' = [req EXCEPT ![p] = Done(r, Respond(acc))]
               ELSE req' = [req EXCEPT ![p] = [r EXCEPT !.pc = op, !.acc = acc]]
            /\ UNCHANGED <<now, store, nextUUID, issuer, mailer, history>>

\* The JSON bodies a client sends to update: every field supplied.
UpdateBodies ==
    [id : Accounts, active : BOOLEAN, roles : {{"admin"}},
     email : {EmailOf(1)}, name : {"n0", "n1"}]

\* render.Bind without the Protected fields: the keys id, active and roles
\* decode into the account.
accountRequestUnprotected(acc, body) ==
    [Account |-> [acc EXCEPT !.email = body.email, !.name = body.name,
                             !.id = body.id, !.active = body.active,
                             !.roles = body.roles],
     ProtectedID |-> body.id, ProtectedActive |-> body.active,
     ProtectedRoles |-> body.roles]

\* render.Bind into accountRequest{Account: acc}: the keys id, active and
\* roles decode into the Protected fields, which shadow the account's
accountRequest(acc, body) ==
    [Account |-> [acc EXCEPT !.email = body.email, !.name = body.name],
     ProtectedID |-> body.id, ProtectedActive |-> body.active,
     ProtectedRoles |-> body.roles]

\* AccountStore.Update: validates, then writes the updated columns of the row
\* with the account's id
UpdateValid(acc) ==
    \A a \in Accounts \ {acc.id} : ~(accounts[a].exists /\ accounts[a].email = acc.email)

StoreUpdate(acc) ==
    IF accounts[acc.id].exists
    THEN [accounts EXCEPT ![acc.id].email = acc.email, ![acc.id].name = acc.name]
    ELSE accounts

update(p) ==
    \E body \in UpdateBodies, ok \in BOOLEAN :
        LET r == req[p]
            data == accountRequest(r.acc, body)
        IN  /\ Quiet /\ r.pc = "update"
            /\ IF ~UpdateValid(data.Account)
               THEN /\ req' = [req EXCEPT ![p] = Done(r, ErrValidation("validation"))]
                    /\ UNCHANGED accounts
               ELSE IF ~ok
               THEN /\ req' = [req EXCEPT ![p] = Failed(r, ErrRender("store"), "Update")]
                    /\ UNCHANGED accounts
               ELSE /\ accounts' = StoreUpdate(data.Account)
                    /\ req' = [req EXCEPT ![p] = Done(r, Respond(data.Account))]
            /\ UNCHANGED <<started, now, tokens, nextTokenID, nextUUID, issuer, mailer, history>>

\* AccountStore.Delete: the account's row and its Token records
delete(p) ==
    \E ok \in BOOLEAN :
        LET r == req[p]
        IN  /\ Quiet /\ r.pc = "delete"
            /\ IF ~ok
               THEN /\ req' = [req EXCEPT ![p] = Failed(r, ErrRender("store"), "Delete")]
                    /\ UNCHANGED <<accounts, tokens, deleted>>
               ELSE /\ accounts' = [accounts EXCEPT ![r.acc.id] = Gone]
                    /\ tokens' = {t \in tokens : t.accountID # r.acc.id}
                    /\ deleted' = deleted \cup {r.acc.id}
                    /\ req' = [req EXCEPT ![p] = Done(r, Respond(NoBody))]
            /\ UNCHANGED <<started, now, nextTokenID, nextUUID, issuer, mailer, rotated, issued,
                           redeemed, refused, loggedOut>>

\* strconv.Atoi of the tokenID path parameter
DigitVal(c) == CHOOSE i \in 1..Len(Digits) : Digits[i] = c

AtoiOk(s) == s # <<>> /\ \A i \in 1..Len(s) : \E d \in 1..Len(Digits) : Digits[d] = s[i]

RECURSIVE Atoi(_)
Atoi(s) == IF s = <<>> THEN 0
           ELSE Atoi(SubSeq(s, 1, Len(s) - 1)) * 10 + DigitVal(s[Len(s)])

TokenIDInputs == {<<Digits[1]>>, <<Digits[2]>>, <<"a">>}

IdentifierInputs == {<<SP, "c">>}

\* updateToken/deleteToken looking the id up among all stored tokens.
OwnTokensAny(acc, id) == {t.id : t \in {u \in tokens : u.id = id}}

\* The range over acc.Token with its test t.ID == id: the ids the handler
\* hands to the store
OwnTokens(acc, id) == {t \in acc.token : t = id}

\* AccountStore.UpdateToken: writes the identifier column of the row
StoreUpdateToken(id, identifier) ==
    {IF t.id = id THEN [t EXCEPT !.identifier = identifier] ELSE t : t \in tokens}

updateToken(p) ==
    \E raw \in TokenIDInputs, ident \in IdentifierInputs, ok \in BOOLEAN :
        LET r == req[p]
            id == Atoi(raw)
            hit == OwnTokens(r.acc, id)
        IN  /\ Quiet /\ r.pc = "updateToken"
            /\ IF ~AtoiOk(raw)
               THEN /\ req' = [req EXCEPT ![p] = Done(r, ErrBadRequest)]
                    /\ UNCHANGED tokens
               ELSE IF hit = {}
               THEN /\ req' = [req EXCEPT ![p] = Done([r EXCEPT !.tid = id], Respond(NoBody))]
                    /\ UNCHANGED tokens
               ELSE IF ~ok
               THEN /\ req' = [req EXCEPT ![p] =
                                  Failed([r EXCEPT !.tid = id], ErrInvalidRequest("store"),
                                         "UpdateToken")]
                    /\ UNCHANGED tokens
               ELSE /\ tokens' = StoreUpdateToken(id, IdentifierBind(ident))
                    /\ req' = [req EXCEPT ![p] = Done([r EXCEPT !.tid = id], Respond(NoBody))]
            /\ UNCHANGED <<started, now, accounts, nextTokenID, nextUUID, issuer, mailer, history>>

\* rs.Store.DeleteToken for the caller's token with this id (its error is dropped)
deleteToken(p) ==
    \E raw \in TokenIDInputs, ok \in BOOLEAN :
        LET r == req[p]
            id == Atoi(raw)
            hit == OwnTokens(r.acc, id)
        IN  /\ Quiet /\ r.pc = "deleteToken"
            /\ IF ~AtoiOk(raw)
               THEN /\ req' = [req EXCEPT ![p] = Done(r, ErrBadRequest)]
                    /\ UNCHANGED tokens
               ELSE /\ tokens' = IF hit # {} /\ ok THEN WithoutToken(id) ELSE tokens
                    /\ req' = [req EXCEPT ![p] =
                                  IF hit # {} /\ ~ok
                                  THEN Failed([r EXCEPT !.tid = id], Respond(NoBody),
                                              "DeleteToken")
                                  ELSE Done([r EXCEPT !.tid = id], Respond(NoBody))]
            /\ UNCHANGED <<started, now, accounts, nextTokenID, nextUUID, issuer, mailer, history>>

\* ------------------------------------------------------------ specification
\* The response is written and the request's goroutine ends.
respond(p) ==
    /\ req[p].pc = "done"
    /\ req' = [req EXCEPT ![p] = Idle]
    /\ UNCHANGED <<started, now, store, nextUUID, issuer, mailer, history>>

Next ==
    \/ Tick
    \/ SetActive
    \/ mailSend
    \/ \E p \in Procs :
        \/ login(p)
        \/ loginCreate(p)
        \/ loginRespond(p)
        \/ token(p)
        \/ tokenGetByID(p)
        \/ tokenSave(p)
        \/ tokenUpdate(p)
        \/ refresh(p)
        \/ refreshExpired(p)
        \/ refreshSave(p)
        \/ refreshUpdate(p)
        \/ logout(p)
        \/ logoutDelete(p)
        \/ accountCtx(p)
        \/ update(p)
        \/ delete(p)
        \/ updateToken(p)
        \/ deleteToken(p)
        \/ respond(p)

Spec == Init /\ [][Next]_vars

\* ------------------------------------------------------------------ claims
Answered(p, op) == req[p].pc = "done" /\ req[p].op = op

Success(p) == req[p].resp.kind = "Respond"

TokenExpired(p) == req[p].resp = AuthErrUnauthorized(errTokenExpired)

\* Some Token record holds this token string.
Stored(rt) == \E t \in tokens : t.token = rt

\* C1 as stated: when a refresh that presented R1 answers with a pair
\* holding R2, R1 is not resolvable in the store and R2 is.
C1_Original ==
    \A p \in Procs :
        Answered(p, "refresh") /\ Success(p) =>
            /\ GetByRefreshToken(req[p].rt) = {}
            /\ GetByRefreshToken(req[p].resp.body.refresh) # {}

\* C1 as amended: a string a successful refresh has presented is never
\* again held by a Token record, and every later refresh presenting it
\* answers token-expired; the saved rotation makes the new string the one
\* the record holds, and the old one that of no record.
C1_PresentedStringDead ==
    /\ [](\A rt \in rotated : ~Stored(rt))
    /\ [][\A p \in Procs :
            /\ (req[p].pc = "idle" /\ req'[p].op = "refresh" /\ req'[p].rt \in rotated)
                   => (req'[p].pc = "done"
                       /\ req'[p].resp = AuthErrUnauthorized(errTokenExpired))
            /\ (req[p].pc = "refresh_save" /\ req'[p].pc = "refresh_update"
                /\ (\E t \in tokens : t.id = req[p].tok.id))
                   => (/\ \E t \in tokens' : t.id = req[p].tok.id
                                              /\ t.token = req'[p].tok.token
                       /\ \A t \in tokens' : t.token # req[p].rt
                       /\ req'[p].tok.token # req[p].rt)]_vars

\* C1, the case: a refresh presenting a string an earlier successful
\* refresh presented has been answered token-expired.
C1_Witness ==
    \E p \in Procs :
        /\ Answered(p, "refresh") /\ TokenExpired(p)
        /\ req[p].rt \in rotated
        /\ req[p].fault = ""

\* C2 as stated: once a logout presenting R has answered, every later
\* refresh or logout presenting R answers token-expired.
C2_AfterLogoutTokenExpired ==
    [][\A p \in Procs :
          (req[p].pc = "idle" /\ req'[p].op \in {"refresh", "logout"}
           /\ req'[p].rt \in loggedOut)
              => (req'[p].pc = "done"
                  /\ req'[p].resp = AuthErrUnauthorized(errTokenExpired))]_vars

\* The issuer holds no unexpired login token with this string, or the string
\* is empty or not alphanumeric.
Unresolvable(str) ==
    \/ ~Required(str)
    \/ ~IsAlphanumeric(str)
    \/ \A lt \in loginTokens : lt.token = str => now > lt.expiry

\* C3: token called with a login token that is malformed, unknown to the
\* issuer or expired answers with the login-token error, and the step
\* leaves the Token records and every account's last-login as they were.
C3_UnresolvableLoginToken ==
    [][\A p \in Procs :
          (req[p].pc = "idle" /\ req'[p].op = "token" /\ Unresolvable(req'[p].str))
              => (/\ req'[p].pc = "done"
                  /\ req'[p].resp = AuthErrUnauthorized(ErrLoginToken)
                  /\ tokens' = tokens
                  /\ nextTokenID' = nextTokenID
                  /\ \A a \in Accounts : accounts'[a].lastLogin = accounts[a].lastLogin)]_vars

\* C3, the case: a token request presenting an expired login token has
\* been answered with the login-token error.
C3_Witness ==
    \E p \in Procs :
        /\ Answered(p, "token")
        /\ req[p].resp = AuthErrUnauthorized(ErrLoginToken)
        /\ \E lt \in loginTokens : lt.token = req[p].str /\ now > lt.expiry

\* The account that exists with this email, or with this id, is disabled.
DisabledEmail(email) ==
    \E a \in Accounts : accounts[a].exists /\ accounts[a].email = email
                        /\ ~accounts[a].active

LoginDisabledOrLookupFailed(r, call) ==
    /\ r.pc = "done"
    /\ r.resp.kind = "ErrUnauthorized"
    /\ r.resp = AuthErrUnauthorized(ErrLoginDisabled) \/ r.fault = call

\* C4: login, token and refresh that reach the eligibility check for a
\* disabled account answer login-disabled (unless the lookup itself failed,
\* which answers unauthorized as well); the step issues no login token,
\* starts no email, creates or rotates no Token record, and the request
\* ends there, so no pair is returned.
C4_DisabledAccountGetsNothing ==
    [][\A p \in Procs :
        /\ (req[p].pc = "idle" /\ req'[p].op = "login" /\ IsEmail(req'[p].str)
            /\ DisabledEmail(req'[p].str))
               => (/\ LoginDisabledOrLookupFailed(req'[p], "GetByEmail")
                   /\ loginTokens' = loginTokens /\ nextLogin' = nextLogin
                   /\ mailq' = mailq /\ mailLog' = mailLog)
        /\ (req[p].pc = "token_getbyid" /\ req'[p].pc # "token_getbyid"
            /\ accounts[req[p].id].exists /\ ~accounts[req[p].id].active)
               => (/\ LoginDisabledOrLookupFailed(req'[p], "GetByID")
                   /\ tokens' = tokens /\ nextUUID' = nextUUID)
        /\ (req[p].pc = "idle" /\ req'[p].op = "refresh"
            /\ \E t \in tokens : /\ t.token = req'[p].rt
                                 /\ ~(now > t.expiry)
                                 /\ accounts[t.accountID].exists
                                 /\ ~accounts[t.accountID].active)
               => (/\ LoginDisabledOrLookupFailed(req'[p], "GetByRefreshToken")
                   /\ tokens' = tokens /\ nextUUID' = nextUUID)]_vars

\* C4, the case: a login for a disabled account has been answered
\* login-disabled.
C4_Witness ==
    \E p \in Procs :
        /\ Answered(p, "login")
        /\ req[p].resp = AuthErrUnauthorized(ErrLoginDisabled)
        /\ DisabledEmail(req[p].str)

\* The email is valid and that of an existing account that may log in.
EligibleEmail(email) ==
    /\ Required(email) /\ IsEmail(email)
    /\ \E a \in Accounts : accounts[a].exists /\ accounts[a].email = email
                           /\ accounts[a].active

MailsStarted == Cardinality(mailq) + Cardinality(mailLog)

\* C5: a login with a valid email of an eligible account goes on (unless
\* the lookup fails) to create exactly one login token, resolvable to the
\* account's id, and to start exactly one email send, for that token and
\* address; any other login is answered unauthorized; the first step of a
\* login, and every step of any other handler, creates no login token and
\* starts no send.
C5_OneLoginTokenOneMail ==
    [][/\ \A p \in Procs :
            /\ (req[p].pc = "idle" /\ req'[p].op = "login")
                   => (/\ loginTokens' = loginTokens /\ MailsStarted' = MailsStarted
                       /\ IF EligibleEmail(req'[p].str)
                          THEN req'[p].pc = "login_create" \/ req'[p].fault = "GetByEmail"
                          ELSE req'[p].pc = "done"
                               /\ req'[p].resp.kind = "ErrUnauthorized")
            /\ (req[p].pc = "login_create" /\ req'[p].pc # "login_create")
                   => (/\ req'[p].pc = "login_respond"
                       /\ Cardinality(loginTokens') = Cardinality(loginTokens) + 1
                       /\ MailsStarted' = MailsStarted + 1
                       /\ \E lt \in loginTokens' \ loginTokens :
                             /\ lt.accountID = req[p].acc.id
                             /\ {l \in loginTokens' : l.token = lt.token /\ ~(now' > l.expiry)}
                                    = {lt}
                             /\ mailq' \ mailq = {[to |-> req[p].acc.email,
                                                   token |-> lt.token]})
            /\ (req[p].pc = "login_respond" /\ req'[p].pc # "login_respond")
                   => (/\ req'[p].pc = "done" /\ req'[p].resp = Respond(NoBody)
                       /\ loginTokens' = loginTokens /\ MailsStarted' = MailsStarted)
       /\ (loginTokens' # loginTokens \/ MailsStarted' # MailsStarted)
              => \E p \in Procs : req[p].pc = "login_create"]_vars

\* C5, the case: a login has been answered with success and its login
\* token is held by the issuer.
C5_Witness ==
    \E p \in Procs :
        /\ Answered(p, "login") /\ Success(p)
        /\ \E lt \in loginTokens :
              accounts[lt.accountID].exists /\ accounts[lt.accountID].email = req[p].str

C7_DeletedAccountUnauthorized ==
    /\ [](\A a \in deleted : ~accounts[a].exists)
    /\ [][\A p \in Procs :
            (req[p].pc = "idle" /\ req'[p].op \in AccountOps /\ req'[p].id \in deleted)
                => (/\ req'[p].pc = "done"
                    /\ req'[p].resp = AppErrUnauthorized
                    /\ accounts' = accounts
                    /\ tokens' = tokens)]_vars

\* C7, the case: a request with the access token of a deleted account has
\* been answered unauthorized.
C7_Witness ==
    \E p \in Procs :
        /\ req[p].pc = "done" /\ req[p].op \in AccountOps
        /\ req[p].id \in deleted
        /\ req[p].resp = AppErrUnauthorized
        /\ req[p].fault = ""

\* The calls that write to the store, and the signer.
PersistenceOrSigning ==
    {"SaveRefreshToken", "GenTokenPair", "UpdateAccount", "DeleteRefreshToken",
     "Update", "Delete", "UpdateToken", "DeleteToken"}

\* C8 as stated: a request in which a store write or the signer returned
\* an error is answered with the internal server error.
C8_FailureIsInternalError ==
    \A p \in Procs :
        (req[p].pc = "done" /\ req[p].fault \in PersistenceOrSigning)
            => req[p].resp = ErrInternalServerError

AuthOps == {"login", "token", "refresh", "logout"}

\* What the caller sees of a response: its class and its message.
Visible(resp) == [kind |-> resp.kind, message |-> resp.err]

\* The store without the account a.
Unregistered(a) == [accounts EXCEPT ![a] = Gone]

\* The login of p has been refused, with no call having failed, and the
\* email it submitted is that of the registered account a.
RefusedRegistered(p, a) ==
    /\ Answered(p, "login") /\ ~Success(p) /\ req[p].fault = ""
    /\ accounts[a].exists /\ accounts[a].email = req[p].str

\* The answer the login of p gets in the run that differs only in that the
\* email it submitted belongs to no account.
UnregisteredRun(p, a) == loginResponse(req[p].str, TRUE, Unregistered(a))

\* C9 as stated: a refused login whose email belongs to a registered account
\* shows the caller the response the same login gets when the email belongs
\* to no account.
C9_Original ==
    \A p \in Procs, a \in Accounts :
        RefusedRegistered(p, a) =>
            Visible(req[p].resp) = Visible(UnregisteredRun(p, a))

\* C9 as amended: the failures of the authentication handlers are uniform in
\* class only.  A request that is refused, with no call having failed, is
\* answered unauthorized; the message names the reason, so that the refused
\* login of a registered account and the same login with the account
\* unregistered are both unauthorized and differ in their message.
C9_UniformClassOnly ==
    /\ \A p \in Procs :
          (req[p].pc = "done" /\ req[p].op \in AuthOps /\ ~Success(p)
           /\ req[p].fault = "")
              => (/\ req[p].resp.kind = "ErrUnauthorized"
                  /\ req[p].resp.err \in {ErrInvalidLogin, ErrUnknownLogin,
                                          ErrLoginDisabled, ErrLoginToken,
                                          errTokenExpired})
    /\ \A p \in Procs, a \in Accounts :
          RefusedRegistered(p, a) =>
              LET here == Visible(req[p].resp)
                  gone == Visible(UnregisteredRun(p, a))
              IN  /\ here.kind = "ErrUnauthorized" /\ gone.kind = "ErrUnauthorized"
                  /\ here.message = ErrLoginDisabled
                  /\ gone.message = ErrUnknownLogin
                  /\ here.message # gone.message

\* C9, the case: a login for a registered, disabled account has been
\* answered, after another account was disabled by account management.
C9_Witness ==
    \E p \in Procs, a \in Accounts :
        /\ Answered(p, "login")
        /\ accounts[a].exists /\ accounts[a].email = req[p].str
        /\ ~accounts[a].active
        /\ a = 1
        /\ Visible(req[p].resp) = [kind |-> "ErrUnauthorized",
                                   message |-> ErrLoginDisabled]

\* C10: an update changes the id, the active flag and the roles of no
\* account, and no row but the caller's; the account it hands to the store
\* and answers with has the id, active flag and roles accountCtx loaded,
\* whatever the body supplies.
C10_ProtectedFieldsKept ==
    [][\A p \in Procs :
          (req[p].pc = "update" /\ req'[p].pc = "done")
              => (/\ \A a \in Accounts :
                        /\ accounts'[a].exists = accounts[a].exists
                        /\ accounts'[a].active = accounts[a].active
                        /\ accounts'[a].roles = accounts[a].roles
                        /\ a # req[p].id => accounts'[a] = accounts[a]
                  /\ tokens' = tokens
                  /\ req'[p].resp.kind = "Respond"
                        => (/\ req'[p].resp.body.id = req[p].id
                            /\ req'[p].resp.body.active = req[p].acc.active
                            /\ req'[p].resp.body.roles = req[p].acc.roles
                            /\ accounts[req[p].id].exists
                                  => (/\ accounts'[req[p].id].name = req'[p].resp.body.name
                                      /\ accounts'[req[p].id].email
                                             = req'[p].resp.body.email)))]_vars

\* C10, the case: an update has been answered with success and has changed
\* the name of the caller's account.
C10_Witness ==
    \E p \in Procs :
        /\ Answered(p, "update") /\ Success(p)
        /\ req[p].resp.body.name = "n1"
        /\ accounts[req[p].id].exists /\ accounts[req[p].id].name = "n1"

\* C11: the send of the login email is detached.  Whatever the state of the
\* send (not yet run, succeeded, failed), a login past its go statement
\* answers success; and the step in which the send ends, in success or in
\* failure, takes back no login token, changes no request and nothing of
\* the store, so that the token of a failed send resolves as before.
C11_DetachedSend ==
    [][/\ \A p \in Procs :
            (req[p].pc = "login_respond" /\ req'[p].pc # "login_respond")
                => (req'[p].pc = "done" /\ req'[p].resp = Respond(NoBody))
       /\ mailLog' # mailLog
              => (/\ loginTokens' = loginTokens
                  /\ req' = req
                  /\ <<accounts, tokens>>' = <<accounts, tokens>>
                  /\ \A m \in mailLog' \ mailLog :
                        /\ m \in [to : {x.to : x \in mailq}, token : {x.token : x \in mailq},
                                  ok : BOOLEAN]
                        /\ GetAccountID(m.token)' = GetAccountID(m.token))]_vars

\* C11, the case: a login has been answered with success after its send
\* had failed, and its login token still resolves to the account.
C11_Witness ==
    \E p \in Procs :
        /\ Answered(p, "login") /\ Success(p)
        /\ Cardinality(loginTokens) = 1 /\ mailq = {}
        /\ \E m \in mailLog :
              /\ ~m.ok /\ m.to = req[p].str
              /\ \E lt \in GetAccountID(m.token) :
                    accounts[lt.accountID].email = req[p].str

\* The Token records of account a.
TokensOf(a) == {t \in tokens : t.accountID = a}

\* Two successful refreshes that presented the same string.
SameStringTwice(i, j) == i \in issued /\ j \in issued /\ i # j /\ i.rt = j.rt

\* C12: when two refreshes presenting the same string have both answered
\* with a pair, the two refresh tokens they returned differ and at most one
\* of them is held by a Token record; and the save of a rotation leaves
\* the ids and the account of every Token record as they were (no record is
\* added or removed), the record saved holding the string of this save.
C12_SameTokenTwice ==
    /\ [](\A i, j \in issued :
            SameStringTwice(i, j) =>
                /\ i.refresh # j.refresh
                /\ ~(Stored(i.refresh) /\ Stored(j.refresh)))
    /\ [][\A p \in Procs :
            (req[p].pc = "refresh_save" /\ req'[p].pc = "refresh_update")
                => (/\ {[id |-> t.id, accountID |-> t.accountID] : t \in tokens'}
                          = {[id |-> t.id, accountID |-> t.accountID] : t \in tokens}
                    /\ \A a \in Accounts :
                          Cardinality(TokensOf(a)') = Cardinality(TokensOf(a))
                    /\ \A t \in tokens' :
                          t.id = req[p].tok.id => t.token = req[p].tok.token)]_vars

\* C12, the case: two refreshes presenting the same string have both
\* answered with a pair, and the record holds the string of one of them.
C12_Witness ==
    \E i, j \in issued :
        /\ SameStringTwice(i, j)
        /\ Stored(i.refresh) /\ ~Stored(j.refresh)
        /\ \A a \in Accounts : Cardinality(TokensOf(a)) = 1

\* The string is well-formed and that of an unexpired login token.
Redeemable(str) == Required(str) /\ IsAlphanumeric(str) /\ GetAccountID(str) # {}

FoundExpired(p) == req[p].pc = "refresh_expired"

\* C14: a refresh that has found the record of its string expired deletes
\* that record and no other, and answers token-expired.
C14_ExpiredRecordDeleted ==
    [][\A p \in Procs :
          (FoundExpired(p) /\ req'[p] # req[p])
              => (/\ req'[p].pc = "done"
                  /\ req'[p].resp = AuthErrUnauthorized(errTokenExpired)
                  /\ issued' = issued
                  /\ tokens' = {t \in tokens : t.id # req[p].tok.id}
                  /\ ~Stored(req[p].rt)')]_vars

\* C15: a redemption whose login token resolves to an account that has been
\* deleted answers unauthorized with unknown-login at the account lookup;
\* it creates no Token record and leaves the login token as it resolves.
C15_DeletedBeforeRedemption ==
    [][\A p \in Procs :
          /\ (req[p].pc = "idle" /\ req'[p].op = "token" /\ Redeemable(req'[p].str))
                 => req'[p].pc = "token_getbyid"
          /\ (req[p].pc = "token_getbyid" /\ req'[p] # req[p]
              /\ ~accounts[req[p].id].exists)
                 => (/\ req'[p].pc = "done"
                     /\ req'[p].resp = AuthErrUnauthorized(ErrUnknownLogin)
                     /\ tokens' = tokens /\ accounts' = accounts
                     /\ redeemed' = redeemed
                     /\ GetAccountID(req[p].str)' = GetAccountID(req[p].str))]_vars

\* C15, the case: a redemption has been answered unknown-login, with no
\* call having failed, for a login token that still resolves to the id of
\* an account deleted after the token was issued.
C15_Witness ==
    \E p \in Procs :
        /\ Answered(p, "token") /\ req[p].fault = ""
        /\ req[p].resp = AuthErrUnauthorized(ErrUnknownLogin)
        /\ \E lt \in GetAccountID(req[p].str) :
              lt.accountID \in deleted /\ lt.accountID = req[p].id
        /\ \A t \in tokens : t.accountID \notin deleted

\* The record with this id, as a set.
RecordOf(toks, id) == {t \in toks : t.id = id}

\* The fields a rotation leaves alone.
Kept(t) == [id |-> t.id, accountID |-> t.accountID, mobile |-> t.mobile,
            identifier |-> t.identifier]

\* C16 as stated: the save of a rotation leaves the record its id, account,
\* mobile flag and identifier, and the number of Token records.
C16_Original ==
    [][\A p \in Procs :
          (req[p].pc = "refresh_save" /\ req'[p].pc = "refresh_update")
              => (/\ Cardinality(tokens') = Cardinality(tokens)
                  /\ {Kept(t) : t \in RecordOf(tokens', req[p].tok.id)}
                        = {Kept(t) : t \in RecordOf(tokens, req[p].tok.id)})]_vars

\* C16 as amended: a refresh rotates its copy of the record it has found,
\* keeping id, account, mobile flag and identifier and setting a fresh
\* string, the time as updated-at and a later expiry; the save writes this
\* copy over the record with its id and changes no other record, so that
\* no record is added or removed and every record keeps its id, account
\* and mobile flag, while the identifier saved is the one the refresh read.
C16_RotatedInPlace ==
    [][\A p \in Procs :
          /\ (req[p].pc = "idle" /\ req'[p].pc = "refresh_save")
                 => \E t \in tokens :
                       /\ t.token = req'[p].rt
                       /\ Kept(req'[p].tok) = Kept(t)
                       /\ \A u \in tokens : u.token # req'[p].tok.token
                       /\ req'[p].tok.updatedAt = now
                       /\ req'[p].tok.expiry = now + RefreshTTL
                       /\ req'[p].tok.expiry > now
          /\ (req[p].pc = "refresh_save" /\ req'[p].pc = "refresh_update")
                 => (/\ Cardinality(tokens') = Cardinality(tokens)
                     /\ {[id |-> t.id, accountID |-> t.accountID, mobile |-> t.mobile]
                            : t \in tokens'}
                           = {[id |-> t.id, accountID |-> t.accountID, mobile |-> t.mobile]
                                : t \in tokens}
                     /\ RecordOf(tokens, req[p].tok.id) # {}
                           => RecordOf(tokens', req[p].tok.id) = {req[p].tok}
                     /\ tokens' \ RecordOf(tokens', req[p].tok.id)
                           = tokens \ RecordOf(tokens, req[p].tok.id))]_vars

\* C16, the case: a refresh has answered with a pair, and the record it
\* rotated holds the returned string under the id, account, mobile flag and
\* identifier it had, with an expiry later than its updated-at.
C16_Witness ==
    \E p \in Procs, t \in tokens, i \in InitialTokens :
        /\ Answered(p, "refresh") /\ Success(p)
        /\ t.token = req[p].resp.body.refresh
        /\ i.token = req[p].rt
        /\ Kept(t) = Kept(i)
        /\ t.expiry > t.updatedAt
        /\ Cardinality(tokens) = Cardinality(InitialTokens)

\* C17: a logout that has resolved its string to a record answers success
\* and removes exactly that record, whatever the record's expiry and
\* whether or not the account may log in.
C17_LogoutRemovesRecord ==
    [][\A p \in Procs :
          /\ (req[p].pc = "idle" /\ req'[p].op = "logout"
              /\ GetByRefreshToken(req'[p].rt) # {} /\ req'[p].fault = "")
                 => req'[p].pc = "logout_delete"
          /\ (req[p].pc = "logout_delete" /\ req'[p] # req[p])
                 => (/\ req'[p].pc = "done" /\ req'[p].resp = Respond(NoBody)
                     /\ tokens' = {t \in tokens : t.id # req[p].tok.id}
                     /\ ~Stored(req[p].rt)')]_vars

\* C18: in a redemption the record is saved before the pair is signed and
\* before last-login is written.  When the signing fails the step has
\* added the new Token record, bound to the account, and the answer is the
\* internal error; when the write of last-login fails the answer is the
\* internal error and the step takes nothing back: the Token records and
\* the accounts stay as they are; neither hands out a pair.
C18_RecordOutlivesFailure ==
    [][\A p \in Procs :
          /\ (req[p].pc = "token_save" /\ req'[p].fault = "GenTokenPair")
                 => (/\ req'[p].pc = "done" /\ req'[p].resp = ErrInternalServerError
                     /\ redeemed' = redeemed
                     /\ \E t \in tokens' \ tokens :
                           /\ tokens' = tokens \cup {t}
                           /\ t.accountID = req[p].acc.id
                           /\ GetByRefreshToken(t.token)' = {t})
          /\ (req[p].pc = "token_update" /\ req'[p].fault = "UpdateAccount")
                 => (/\ req'[p].pc = "done" /\ req'[p].resp = ErrInternalServerError
                     /\ redeemed' = redeemed
                     /\ tokens' = tokens /\ accounts' = accounts)]_vars

\* C18, the case: a redemption has been answered with the internal error
\* because the write of last-login failed, no redemption has handed out a
\* pair, and the Token record it created resolves to the account.
C18_Witness ==
    \E p \in Procs :
        /\ Answered(p, "token") /\ req[p].fault = "UpdateAccount"
        /\ req[p].resp = ErrInternalServerError
        /\ redeemed = {}
        /\ \E t \in tokens :
              /\ \A i \in InitialTokens : i.id # t.id
              /\ t.accountID = req[p].id
              /\ GetByRefreshToken(t.token) = {t}

\* C19: in a refresh the rotation is saved before last-login is written.
\* When the signing or the save fails, the answer is the internal error and
\* the step leaves the Token records as they are, the presented string
\* resolving as before; when the save has succeeded and the write of
\* last-login fails, the answer is the internal error and the presented
\* string is held by no record; none of the three hands out a pair.
C19_RotationOutlivesFailure ==
    [][\A p \in Procs :
          /\ (req[p].pc = "idle" /\ req'[p].op = "refresh"
              /\ req'[p].fault = "GenTokenPair")
                 => (/\ req'[p].pc = "done" /\ req'[p].resp = ErrInternalServerError
                     /\ tokens' = tokens /\ issued' = issued
                     /\ \E rt \in RefreshInputs :
                           rt = req'[p].rt /\ GetByRefreshToken(rt)' # {})
          /\ (req[p].pc = "refresh_save" /\ req'[p].fault = "SaveRefreshToken")
                 => (/\ req'[p].pc = "done" /\ req'[p].resp = ErrInternalServerError
                     /\ tokens' = tokens /\ issued' = issued
                     /\ GetByRefreshToken(req[p].rt)' = GetByRefreshToken(req[p].rt))
          /\ (req[p].pc = "refresh_update" /\ req'[p].fault = "UpdateAccount")
                 => (/\ req'[p].pc = "done" /\ req'[p].resp = ErrInternalServerError
                     /\ tokens' = tokens /\ issued' = issued
                     /\ accounts' = accounts
                     /\ GetByRefreshToken(req[p].rt)' = {})]_vars

\* C19, the case: a refresh has been answered with the internal error
\* because the write of last-login failed; no refresh has handed out a
\* pair, the presented string resolves no more, and its record holds the
\* string of the rotation.
C19_Witness ==
    \E p \in Procs :
        /\ Answered(p, "refresh") /\ req[p].fault = "UpdateAccount"
        /\ req[p].resp = ErrInternalServerError
        /\ issued = {}
        /\ GetByRefreshToken(req[p].rt) = {}
        /\ \E i \in InitialTokens, t \in tokens :
              /\ i.token = req[p].rt /\ t.id = i.id
              /\ \A u \in InitialTokens : u.token # t.token

\* The string is that of a stored, unexpired Token record of an account
\* that exists and may (eligible) or may not log in.
Presentable(rt, eligible) ==
    \E t \in GetByRefreshToken(rt) :
        ~(now > t.expiry) /\ accounts[t.accountID].active = eligible

\* C20: a refresh presenting a stored, unexpired token of an account that
\* may not log in answers login-disabled (unless the lookup fails) and
\* leaves the Token records and the accounts as they are, the token
\* resolving as before; and a refresh presenting a stored, unexpired token
\* of an account that may log in passes the checks, refused before or not.
C20_DisabledRefreshKeepsRecord ==
    [][\A p \in Procs, rt \in RefreshInputs :
          (req[p].pc = "idle" /\ req'[p].op = "refresh" /\ req'[p].rt = rt
           /\ req'[p].fault # "GetByRefreshToken")
              => (/\ Presentable(rt, FALSE)
                        => (/\ req'[p].pc = "done"
                            /\ req'[p].resp = AuthErrUnauthorized(ErrLoginDisabled)
                            /\ tokens' = tokens /\ accounts' = accounts
                            /\ issued' = issued
                            /\ GetByRefreshToken(rt)' = GetByRefreshToken(rt))
                  /\ Presentable(rt, TRUE)
                        => (req'[p].pc = "refresh_save"
                            \/ req'[p].fault = "GenTokenPair"))]_vars

\* C20, the case: a refresh has answered with a pair for a string that an
\* earlier refresh, the account then disabled, answered login-disabled.
C20_Witness ==
    \E p \in Procs :
        /\ Answered(p, "refresh") /\ Success(p)
        /\ req[p].rt \in refused
        /\ \E t \in tokens : t.token = req[p].resp.body.refresh
                             /\ accounts[t.accountID].active
====
